---- MODULE Spec2Model ----
(***************************************************************************)
(* glue-mcp: the Glue Data Catalog facade (GlueDataCatalog, src/src/lib.rs) *)
(* and the process that serves it (main, src/src/main.rs).                  *)
(*                                                                          *)
(* Each tool handler is an async fn with one await point, the backend      *)
(* request.  A handler is therefore two steps: the part up to the await    *)
(* (log line, request sent) and the continuation after the backend replied *)
(* (map_err, mapping to the result record, serialisation, return).  The    *)
(* backend is the AWS Glue API behind aws_sdk_glue::Client: a catalog of   *)
(* databases, tables and columns that answers each request with its first  *)
(* page, or with a failure.                                                 *)
(***************************************************************************)
EXTENDS Integers, Sequences, FiniteSets

VARIABLES
    main_pc,    \* position of the process that owns the facade
    client,     \* GlueDataCatalog.client, the facade's only field
    probe,      \* from_env's get_databases request: none / pending / reply
    bound,      \* TRUE once SseServer::serve has bound BIND_ADDRESS
    calls,      \* the tool invocations, by invocation id
    requests,   \* requests[id]: the backend requests invocation id has sent
    replies,    \* replies[id]: the backend's reply to invocation id's request
    counters    \* the metrics recorder's counters, by tag

vars == <<main_pc, client, probe, bound, calls, requests, replies, counters>>

(***************************************************************************)
(* Bounds.                                                                  *)
(***************************************************************************)
\* Number of tool invocations that may overlap.
MaxCalls == 2
\* Number of entries the backend puts in one page of a list reply.
PageSize == 3

CallIds == 1..MaxCalls

(***************************************************************************)
(* The backend catalog.  Entries are the SDK's Database, Table and Column  *)
(* structures: a name and further attributes the facade does not read.     *)
(***************************************************************************)
None == [kind |-> "none"]

Database(n) == [name |-> n, catalog_id |-> "123456789012"]

Column(n, t) == [name |-> n, type |-> t]

\* The databases in the order the API enumerates them; a name may repeat.
CatalogDatabases ==
    << Database("sales"), Database("ops"), Database("sales"), Database("empty_db") >>

\* The tables of each database, in API order.
CatalogTables(db) ==
    CASE db = "sales"    -> << "t2", "t1", "t3" >>
      [] db = "ops"      -> << "t1" >>
      [] db = "empty_db" -> << >>
      [] OTHER           -> << >>

DatabaseExists(db) == \E i \in 1..Len(CatalogDatabases) : CatalogDatabases[i].name = db

TableExists(db, t) == \E i \in 1..Len(CatalogTables(db)) : CatalogTables(db)[i] = t

\* The storage descriptor of a table: absent, or a list of columns.
CatalogStorageDescriptor(db, t) ==
    CASE db = "sales" /\ t = "t1" ->
            [kind |-> "sd", columns |-> << Column("id", "bigint"), Column("name", "string") >>]
      [] db = "sales" /\ t = "t3" -> [kind |-> "sd", columns |-> << >>]
      [] db = "ops" /\ t = "t1"   -> [kind |-> "sd", columns |-> << Column("ts", "timestamp") >>]
      [] OTHER                    -> None

Table(db, t) ==
    [kind |-> "table", name |-> t, database_name |-> db,
     storage_descriptor |-> CatalogStorageDescriptor(db, t)]

\* The arguments the callers pass.
DbArgs == {"sales", "empty_db", "missing_db"}
TableArgs == {"t1", "t2", "t3"}

\* Client configurations: the region is an Option.
Regions == {"none", "eu-west-1"}

(***************************************************************************)
(* Backend requests and replies.                                            *)
(***************************************************************************)
Failure(e) == [kind |-> "err", error |-> e]

\* A failure any request can meet (network, throttling, credentials).
TransientError == "dispatch failure"

NotFoundError(what) == "EntityNotFoundException: " \o what \o " not found"

FirstPage(s) == IF Len(s) > PageSize THEN SubSeq(s, 1, PageSize) ELSE s

TableEntries(db) == [i \in 1..Len(CatalogTables(db)) |-> Table(db, CatalogTables(db)[i])]

\* What the catalog answers to a request that reaches it.
Answer(req) ==
    CASE req.api = "GetDatabases" ->
            [kind |-> "ok", database_list |-> FirstPage(CatalogDatabases),
             next_token |-> Len(CatalogDatabases) > PageSize]
      [] req.api = "GetTables" ->
            IF DatabaseExists(req.database_name)
            THEN [kind |-> "ok", table_list |-> FirstPage(TableEntries(req.database_name)),
                  next_token |-> Len(CatalogTables(req.database_name)) > PageSize]
            ELSE Failure(NotFoundError(req.database_name))
      [] req.api = "GetTable" ->
            IF TableExists(req.database_name, req.name)
            THEN [kind |-> "ok", table |-> Table(req.database_name, req.name)]
            ELSE Failure(NotFoundError(req.name))

\* The replies the SDK future of a request can resolve to.
Replies(req) == {Answer(req), Failure(TransientError)}

(***************************************************************************)
(* The facade's pure parts: requests, error values, result records.        *)
(***************************************************************************)
NoClient == [kind |-> "none"]

\* GlueDataCatalog { client }
GlueDataCatalog(region) == [kind |-> "client", region |-> region]

GetDatabasesRequest == [api |-> "GetDatabases"]

\* The request without its scope: the builder's database_name left at a default.
GetTablesRequestUnscoped(database_name) == [api |-> "GetTables", database_name |-> "ops"]

GetTablesRequest(database_name) == [api |-> "GetTables", database_name |-> database_name]

GetTableRequest(database_name, table_name) ==
    [api |-> "GetTable", database_name |-> database_name, name |-> table_name]

\* A failure turned into an empty success.
InternalErrorSwallowed(message, e) ==
    [kind |-> "ok", is_error |-> FALSE,
     content |-> << [type |-> "text", json |-> [type |-> "object", members |-> [databases |-> << >>]]] >>]

\* McpError::internal_error(message, Some(json!({"error": e.to_string()})))
InternalError(message, e) ==
    [kind |-> "err", code |-> "internal_error", message |-> message,
     data |-> [error |-> e]]

\* .iter().map(|x| x.name().into()).collect::<Vec<String>>()
Names(list) == [i \in 1..Len(list) |-> list[i].name]

\* serde_json::to_value of a record of String and Vec<String> fields: a JSON
\* object with the same members; it has no failing input.
ToValue(record) == [kind |-> "ok", value |-> [type |-> "object", members |-> record]]

\* Content::json: the JSON value rendered into one text content.
ContentJson(value) == [kind |-> "ok", content |-> [type |-> "text", json |-> value]]

\* CallToolResult::success(vec![content])
Success(content) == [kind |-> "ok", is_error |-> FALSE, content |-> << content >>]

\* The tail the three handlers share: to_value(result).map_err(..)?, then
\* Ok(CallToolResult::success(vec![Content::json(json_result)?])).
Serialize(record) ==
    LET json_result == ToValue(record) IN
    IF json_result.kind = "err"
    THEN InternalError("Failed to serialize result", json_result.error)
    ELSE LET content == ContentJson(json_result.value) IN
         IF content.kind = "err"
         THEN content.error
         ELSE Success(content.content)

\* The names with repetitions dropped.
ListDatabasesResultDeduplicated(response) ==
    LET list == response.database_list
        first == {i \in 1..Len(list) : \A j \in 1..(i - 1) : list[j].name # list[i].name}
        nth[k \in 0..Len(list)] ==
            IF k = 0 THEN 0 ELSE CHOOSE i \in first : i > nth[k - 1] /\ \A j \in first : j > nth[k - 1] => i <= j
    IN [databases |-> [k \in 1..Cardinality(first) |-> list[nth[k]].name]]

ListDatabasesResult(response) == [databases |-> Names(response.database_list)]

DatabaseMetadata(database_name, response) ==
    [name |-> database_name, tables |-> Names(response.table_list)]

\* The columns with a missing storage descriptor not defaulted, and the column
\* types taken for the names.
ColumnsByType(response) ==
    IF response.table.storage_descriptor.kind = "none" THEN << "" >>
    ELSE [i \in 1..Len(response.table.storage_descriptor.columns) |->
             response.table.storage_descriptor.columns[i].type]

\* response.table().and_then(storage_descriptor).and_then(columns).unwrap_or_default()
Columns(response) ==
    IF response.table.kind = "none" THEN << >>
    ELSE IF response.table.storage_descriptor.kind = "none" THEN << >>
    ELSE Names(response.table.storage_descriptor.columns)

TableMetadata(table_name, response) ==
    [name |-> table_name, columns |-> Columns(response)]

\* The continuation of each handler, from the reply the await resolved to.
list_databases_result(response) ==
    IF response.kind = "err"
    THEN InternalError("Failed to list databases", response.error)
    ELSE Serialize(ListDatabasesResult(response))

get_database_metadata_result(database_name, response) ==
    IF response.kind = "err"
    THEN InternalError("Failed to get tables", response.error)
    ELSE Serialize(DatabaseMetadata(database_name, response))

get_table_metadata_result(table_name, response) ==
    IF response.kind = "err"
    THEN InternalError("Failed to get table metadata", response.error)
    ELSE Serialize(TableMetadata(table_name, response))

\* log::info!("Listing databases in {}", self.client.config().region().unwrap()):
\* the arguments are evaluated only when the info level is enabled, and the
\* unwrap panics when the client's configuration has no region.
LogLinePanics(c, info_enabled) == info_enabled /\ c.region = "none"

(***************************************************************************)
(* State.                                                                   *)
(***************************************************************************)
Ops == {"list_databases", "get_database_metadata", "get_table_metadata"}

Categories == {"aws_call_error", "serde_error"}

\* A counter per operation, and one per operation and failure category.
CounterTags == Ops \X ({"invocations"} \cup Categories)

IdleCall ==
    [op |-> "none", database_name |-> "", table_name |-> "", pc |-> "idle",
     result |-> None]

Invocation(op, database_name, table_name, pc) ==
    [op |-> op, database_name |-> database_name, table_name |-> table_name,
     pc |-> pc, result |-> None]

Init ==
    /\ main_pc = "start"
    /\ client = NoClient
    /\ probe = None
    /\ bound = FALSE
    /\ calls = [id \in CallIds |-> IdleCall]
    /\ requests = [id \in CallIds |-> << >>]
    /\ replies = [id \in CallIds |-> None]
    /\ counters = [t \in CounterTags |-> 0]

\* Tool calls are dispatched to the facade once it has been handed to a
\* transport.
Serving == main_pc \in {"ready", "serving"}

\* A reply slot shared by the invocations: the first reply that is ready.
AwaitedResponseShared(id) ==
    LET ready == {j \in CallIds : replies[j] # None} IN
    IF ready = {} THEN None
    ELSE replies[CHOOSE j \in ready : \A k \in ready : j <= k]

\* The reply the await of invocation id resolves to: the one to its own request.
AwaitedResponse(id) == replies[id]

(***************************************************************************)
(* Construction.                                                            *)
(***************************************************************************)
\* GlueDataCatalog::new(client): the caller's client, whatever its region.
new(region) ==
    /\ main_pc = "start"
    /\ client' = GlueDataCatalog(region)
    /\ main_pc' = "ready"
    /\ UNCHANGED <<probe, bound, calls, requests, replies, counters>>

\* from_env up to its await: configuration loaded, client built, probe sent.
from_env_call(region) ==
    /\ main_pc = "start"
    /\ main_pc' = "probing"
    /\ probe' = [kind |-> "pending", region |-> region]
    /\ UNCHANGED <<client, bound, calls, requests, replies, counters>>

\* The backend answers the probe.
ProbeReply ==
    /\ main_pc = "probing"
    /\ probe.kind = "pending"
    /\ \E r \in Replies(GetDatabasesRequest) :
          probe' = [kind |-> "replied", region |-> probe.region, reply |-> r]
    /\ UNCHANGED <<main_pc, client, bound, calls, requests, replies, counters>>

\* The probe's outcome dropped.
AfterProbeIgnored(reply) == "constructed"

\* .expect("Couldn't connect to AWS"): where the process stands after the probe.
AfterProbe(reply) == IF reply.kind = "err" THEN "panicked" ELSE "constructed"

\* from_env after its await: panic on a failed probe, else Self { client }.
from_env_return ==
    /\ main_pc = "probing"
    /\ probe.kind = "replied"
    /\ main_pc' = AfterProbe(probe.reply)
    /\ client' = IF main_pc' = "constructed" THEN GlueDataCatalog(probe.region) ELSE client
    /\ UNCHANGED <<probe, bound, calls, requests, replies, counters>>

\* SseServer::serve(BIND_ADDRESS.parse()?).await?.with_service(..): the bind
\* succeeds, or main returns the error.
serve(bind_ok) ==
    /\ main_pc = "constructed"
    /\ bound' = bind_ok
    /\ main_pc' = IF bind_ok THEN "serving" ELSE "exited"
    /\ UNCHANGED <<client, probe, calls, requests, replies, counters>>

\* ctrl_c, ct.cancel(), main returns: the in-flight invocations are abandoned.
ctrl_c ==
    /\ main_pc = "serving"
    /\ main_pc' = "stopped"
    /\ calls' = [id \in CallIds |-> IF calls[id].pc = "awaiting"
                                     THEN [calls[id] EXCEPT !.pc = "abandoned"]
                                     ELSE calls[id]]
    /\ UNCHANGED <<client, probe, bound, requests, replies, counters>>

(***************************************************************************)
(* The tool handlers.                                                       *)
(***************************************************************************)
list_databases_call(id, info_enabled) ==
    /\ Serving
    /\ calls[id].pc = "idle"
    /\ IF LogLinePanics(client, info_enabled)
       THEN /\ calls' = [calls EXCEPT ![id] = Invocation("list_databases", "", "", "panicked")]
            /\ UNCHANGED requests
       ELSE /\ calls' = [calls EXCEPT ![id] = Invocation("list_databases", "", "", "awaiting")]
            /\ requests' = [requests EXCEPT ![id] = Append(@, GetDatabasesRequest)]
    /\ UNCHANGED <<main_pc, client, probe, bound, replies, counters>>

get_database_metadata_call(id, database_name) ==
    /\ Serving
    /\ calls[id].pc = "idle"
    /\ calls' = [calls EXCEPT ![id] =
                    Invocation("get_database_metadata", database_name, "", "awaiting")]
    /\ requests' = [requests EXCEPT ![id] = Append(@, GetTablesRequest(database_name))]
    /\ UNCHANGED <<main_pc, client, probe, bound, replies, counters>>

get_table_metadata_call(id, database_name, table_name) ==
    /\ Serving
    /\ calls[id].pc = "idle"
    /\ calls' = [calls EXCEPT ![id] =
                    Invocation("get_table_metadata", database_name, table_name, "awaiting")]
    /\ requests' = [requests EXCEPT ![id] =
                    Append(@, GetTableRequest(database_name, table_name))]
    /\ UNCHANGED <<main_pc, client, probe, bound, replies, counters>>

\* The backend answers the request of invocation id.
BackendReply(id) ==
    /\ Serving
    /\ calls[id].pc = "awaiting"
    /\ replies[id] = None
    /\ \E r \in Replies(requests[id][Len(requests[id])]) :
          replies' = [replies EXCEPT ![id] = r]
    /\ UNCHANGED <<main_pc, client, probe, bound, calls, requests, counters>>

\* What the handler of invocation c returns once its await resolved to response.
HandlerResult(c, response) ==
    CASE c.op = "list_databases" -> list_databases_result(response)
      [] c.op = "get_database_metadata" ->
            get_database_metadata_result(c.database_name, response)
      [] c.op = "get_table_metadata" ->
            get_table_metadata_result(c.table_name, response)

\* The continuation of a handler: it resumes with its reply and returns.
handler_return(id) ==
    /\ Serving
    /\ calls[id].pc = "awaiting"
    /\ AwaitedResponse(id) # None
    /\ calls' = [calls EXCEPT ![id] =
                    [@ EXCEPT !.pc = "returned",
                              !.result = HandlerResult(calls[id], AwaitedResponse(id))]]
    /\ UNCHANGED <<main_pc, client, probe, bound, requests, replies, counters>>

Handlers ==
    \E id \in CallIds :
        \/ \E info_enabled \in BOOLEAN : list_databases_call(id, info_enabled)
        \/ \E db \in DbArgs : get_database_metadata_call(id, db)
        \/ \E db \in DbArgs, t \in TableArgs : get_table_metadata_call(id, db, t)
        \/ BackendReply(id)
        \/ handler_return(id)

\* The facade as a library: built by new(client) and handed to a transport.
Next ==
    \/ \E region \in Regions : new(region)
    \/ Handlers

Spec == Init /\ [][Next]_vars

\* The process of main.rs: from_env, bind, serve, shut down.
MainNext ==
    \/ \E region \in Regions : from_env_call(region)
    \/ ProbeReply
    \/ from_env_return
    \/ \E bind_ok \in BOOLEAN : serve(bind_ok)
    \/ ctrl_c
    \/ Handlers

MainSpec == Init /\ [][MainNext]_vars

(***************************************************************************)
(* Properties.                                                              *)
(***************************************************************************)
Returned(id) == calls[id].pc = "returned"

\* The record inside a successful result: the members of the JSON object of
\* its one content.
Payload(result) == result.content[1].json.members

BackendMessages ==
    {"Failed to list databases", "Failed to get tables", "Failed to get table metadata"}

EncodingMessages == {"Failed to serialize result"}

\* C1: an invocation whose backend request failed returns an internal error
\* whose payload carries the backend's error description; it returns no
\* successful result and no record at all.
C1_BackendFailureSurfaced ==
    \A id \in CallIds :
        (Returned(id) /\ replies[id].kind = "err") =>
            /\ calls[id].result.kind = "err"
            /\ calls[id].result.code = "internal_error"
            /\ calls[id].result.data = [error |-> replies[id].error]
            /\ "content" \notin DOMAIN calls[id].result

C1_Witness ==
    /\ \E id \in CallIds :
          /\ Returned(id)
          /\ calls[id].op = "get_table_metadata"
          /\ replies[id] = Failure(NotFoundError(calls[id].table_name))
          /\ calls[id].result.kind = "err"
    /\ \E id \in CallIds :
          /\ Returned(id)
          /\ calls[id].op = "list_databases"
          /\ replies[id] = Failure(TransientError)

\* C2: a successful list_databases returns the names of the databases of the
\* backend's reply: same length, same order, repeated names kept.
C2_DatabasesAsReported ==
    \A id \in CallIds :
        (Returned(id) /\ calls[id].op = "list_databases" /\ calls[id].result.kind = "ok") =>
            /\ replies[id].kind = "ok"
            /\ LET databases == Payload(calls[id].result).databases
                   reported == replies[id].database_list
               IN /\ Len(databases) = Len(reported)
                  /\ \A i \in 1..Len(reported) : databases[i] = reported[i].name

C2_Witness ==
    \E id \in CallIds :
        /\ Returned(id)
        /\ calls[id].op = "list_databases"
        /\ calls[id].result.kind = "ok"
        /\ LET databases == Payload(calls[id].result).databases
           IN /\ Len(databases) >= 3
              /\ databases[1] = "sales" /\ databases[2] = "ops" /\ databases[3] = "sales"

\* C3: get_database_metadata(name), when the backend request succeeds, returns
\* name unchanged and the table names of the reply, in order; the request was
\* scoped to name, so no table of another database is returned; an empty
\* table list is a success with no tables.
C3_DatabaseMetadataScoped ==
    \A id \in CallIds :
        (Returned(id) /\ calls[id].op = "get_database_metadata" /\ replies[id].kind = "ok") =>
            /\ calls[id].result.kind = "ok"
            /\ requests[id][1].api = "GetTables"
            /\ requests[id][1].database_name = calls[id].database_name
            /\ LET record == Payload(calls[id].result)
                   reported == replies[id].table_list
               IN /\ DOMAIN record = {"name", "tables"}
                  /\ record.name = calls[id].database_name
                  /\ Len(record.tables) = Len(reported)
                  /\ \A i \in 1..Len(reported) :
                        /\ record.tables[i] = reported[i].name
                        /\ reported[i].database_name = calls[id].database_name

C3_Witness ==
    /\ \E id \in CallIds :
          /\ Returned(id)
          /\ calls[id].op = "get_database_metadata"
          /\ calls[id].database_name = "empty_db"
          /\ calls[id].result.kind = "ok"
          /\ Payload(calls[id].result) = [name |-> "empty_db", tables |-> << >>]
    /\ \E id \in CallIds :
          /\ Returned(id)
          /\ calls[id].op = "get_database_metadata"
          /\ calls[id].result.kind = "ok"
          /\ Payload(calls[id].result) = [name |-> "sales", tables |-> << "t2", "t1", "t3" >>]

\* C4: get_table_metadata(db, table), when the backend request succeeds,
\* returns table as the name; the columns are empty when the table has no
\* storage descriptor or the descriptor has no columns, and else the
\* descriptor's column names in order.
C4_ColumnsFromDescriptor ==
    \A id \in CallIds :
        (Returned(id) /\ calls[id].op = "get_table_metadata" /\ replies[id].kind = "ok") =>
            /\ calls[id].result.kind = "ok"
            /\ LET record == Payload(calls[id].result)
                   sd == replies[id].table.storage_descriptor
               IN /\ DOMAIN record = {"name", "columns"}
                  /\ record.name = calls[id].table_name
                  /\ IF sd.kind = "none" \/ Len(sd.columns) = 0
                     THEN record.columns = << >>
                     ELSE /\ Len(record.columns) = Len(sd.columns)
                          /\ \A i \in 1..Len(sd.columns) :
                                record.columns[i] = sd.columns[i].name

C4_Witness ==
    /\ \E id \in CallIds :
          /\ Returned(id)
          /\ calls[id].op = "get_table_metadata"
          /\ replies[id].kind = "ok"
          /\ replies[id].table.storage_descriptor.kind = "none"
          /\ Payload(calls[id].result) = [name |-> "t2", columns |-> << >>]
    /\ \E id \in CallIds :
          /\ Returned(id)
          /\ calls[id].op = "get_table_metadata"
          /\ replies[id].kind = "ok"
          /\ Payload(calls[id].result) = [name |-> "t1", columns |-> << "id", "name" >>]

\* C5: overlapping invocations do not interfere: a step of one invocation
\* leaves every other invocation as it was, an invocation returns what its
\* handler computes from its own arguments and the reply to its own request,
\* and no step changes the client handle once the facade holds it.
C5_Isolation ==
    [][ /\ client # NoClient => client' = client
        /\ \A id \in CallIds :
              calls'[id] # calls[id] =>
                 /\ \A other \in CallIds \ {id} :
                       /\ calls'[other] = calls[other]
                       /\ requests'[other] = requests[other]
                       /\ replies'[other] = replies[other]
                 /\ calls'[id].pc = "returned" =>
                       /\ replies[id] # None
                       /\ calls'[id].result = HandlerResult(calls[id], replies[id])
      ]_vars

C5_Witness ==
    \E id \in CallIds, other \in CallIds :
        /\ id # other
        /\ Returned(id)
        /\ calls[other].pc = "awaiting"
        /\ replies[other] # None
        /\ replies[other] # replies[id]
        /\ calls[other].op # calls[id].op

\* C6: every invocation sends exactly one backend request: none after a
\* failure, none after a first page that announces more pages.
C6_ExactlyOneRequest ==
    \A id \in CallIds :
        /\ calls[id].pc \in {"returned", "panicked"} => Len(requests[id]) = 1
        /\ calls[id].pc = "awaiting" => Len(requests[id]) = 1

\* C7: every invocation increments the counter of its operation once, and
\* every failing invocation the counter of its operation and failure
\* category once; a successful invocation increments no failure counter.
C7_CountersPerInvocation ==
    \A op \in Ops :
        /\ counters[<<op, "invocations">>] =
              Cardinality({id \in CallIds : calls[id].op = op})
        /\ counters[<<op, "aws_call_error">>] =
              Cardinality({id \in CallIds :
                  /\ calls[id].op = op /\ Returned(id)
                  /\ calls[id].result.kind = "err"
                  /\ calls[id].result.message \in BackendMessages})
        /\ counters[<<op, "serde_error">>] =
              Cardinality({id \in CallIds :
                  /\ calls[id].op = op /\ Returned(id)
                  /\ calls[id].result.kind = "err"
                  /\ calls[id].result.message \in EncodingMessages})

\* C8: an invocation that fails fails with an internal error of one of two
\* kinds: a backend-call failure, exactly when its backend request failed,
\* or an encoding failure, only after its backend request succeeded.
C8_TwoErrorKinds ==
    \A id \in CallIds :
        LET failed == \/ calls[id].pc = "panicked"
                      \/ Returned(id) /\ calls[id].result.kind # "ok"
        IN failed =>
              /\ Returned(id)
              /\ calls[id].result.kind = "err"
              /\ calls[id].result.code = "internal_error"
              /\ calls[id].result.message \in BackendMessages \cup EncodingMessages
              /\ calls[id].result.message \in BackendMessages <=> replies[id].kind = "err"
              /\ calls[id].result.message \in EncodingMessages => replies[id].kind = "ok"

\* C9: the transport is bound, the facade exists and tool calls are served
\* only after from_env's probe succeeded; after a failed probe the process
\* panics, binds nothing and serves nothing.
C9_FailFastStartup ==
    LET probe_ok == probe.kind = "replied" /\ probe.reply.kind = "ok"
        probe_failed == probe.kind = "replied" /\ probe.reply.kind = "err"
    IN /\ bound => probe_ok
       /\ client # NoClient => probe_ok
       /\ main_pc \in {"constructed", "serving", "exited", "stopped"} => probe_ok
       /\ \A id \in CallIds : calls[id].pc # "idle" => probe_ok /\ bound
       /\ probe_failed =>
             /\ main_pc \in {"probing", "panicked"}
             /\ ~bound
             /\ client = NoClient
             /\ \A id \in CallIds : calls[id].pc = "idle"

C9_Witness ==
    /\ main_pc = "panicked"
    /\ probe.kind = "replied"
    /\ probe.reply.kind = "err"
    /\ ~bound

\* C10: every list_databases invocation sends its backend request and returns
\* a value, whatever the region of the client: its log line never aborts it.
C10_ListDatabasesAlwaysReturns ==
    \A id \in CallIds :
        calls[id].op = "list_databases" =>
            /\ calls[id].pc # "panicked"
            /\ Len(requests[id]) = 1

====
